---- MODULE Spec2Model ----
(***************************************************************************)
(* FIFO cost-allocation ledger of warehouse_app.py.                        *)
(*                                                                         *)
(* State: the SQLite tables invoices, invoice_items (the batches), sales,  *)
(* sale_items (the sale lines) and sale_fifo (the allocation rows), as the *)
(* module-level connection `conn` sees them, plus what has been committed  *)
(* to the database file.  Quantities, prices and dates are small integers; *)
(* a date is a day number (the code compares ISO date strings, whose       *)
(* lexicographic order is the chronological order).                        *)
(***************************************************************************)
EXTENDS Integers, Sequences, FiniteSets, TLC

\* ------------------------------------------------------------------ bounds
NumProducts == 2
MaxInvoices == 2
MaxBatches == 2
MaxSales == 2
MaxLines == 2
MaxQty == 2
MaxPrice == 2
MaxDate == 3
MaxFifoId == 3
MaxFailAt == 2
NumSessions == 2

\* FIFO_START_DATE = date(2026, 1, 1), as a day number inside 1..MaxDate
FIFO_START_DATE == 2

Products == 1..NumProducts
Dates == 1..MaxDate
BatchQtys == 1..MaxQty
SaleQtys == -1..MaxQty
Charges == 0..(MaxPrice - 1)
Prices == 1..MaxPrice
Sessions == 1..NumSessions

VARIABLES
    invoices,       \* invoice id -> invoice_date
    invoice_items,  \* batch id -> [invoice_id, product_id, qty, price]
    sales,          \* sale id -> sale_date
    sale_items,     \* sale line id -> [sale_id, product_id, qty]
    sale_fifo,      \* allocation rows as seen through conn
    durable_fifo,   \* allocation rows committed to the database file
    seq,            \* sqlite_sequence: last AUTOINCREMENT id of each table
    last,           \* the last step: [sale |-> the sale whose recalc_fifo_for_sale completed
                    \* last in it (0: none), bulk |-> it was a mass recalculation that
                    \* met no failure, raised |-> the sales whose recalc_fifo_for_sale raised in it,
                    \* told |-> what the handler showed its caller, attempts |-> the sales
                    \* the mass recalculation called recalc_fifo_for_sale for, in order,
                    \* errors |-> the sales its report lists as failed, returned |-> the
                    \* value recalc_fifo_for_sale handed back ({}: None), guarded |-> the
                    \* arguments <<sale_id, product_id, qty>> of a safe_add_sale_item call]
    sess            \* browser session -> where its recalc_fifo_for_sale call stands

vars == <<invoices, invoice_items, sales, sale_items, sale_fifo, durable_fifo, seq, last,
          sess>>

\* ----------------------------------------------------------------- helpers
\* take = available: the request is not consulted
MinIgnoringNeed(a, b) == a

Min(a, b) == IF a <= b THEN a ELSE b

RECURSIVE SumQty(_)
SumQty(rows) ==
    IF rows = {} THEN 0
    ELSE LET r == CHOOSE x \in rows : TRUE IN r.qty + SumQty(rows \ {r})

\* ascending sequence of a finite set of integers
RECURSIVE Ascending(_)
Ascending(S) ==
    IF S = {} THEN <<>>
    ELSE LET m == CHOOSE x \in S : \A y \in S : x <= y IN <<m>> \o Ascending(S \ {m})

\* The database as one value, so that a handler's SQL reads what the
\* statements before it wrote.
DB == [invoices |-> invoices, invoice_items |-> invoice_items, sales |-> sales,
       sale_items |-> sale_items, sale_fifo |-> sale_fifo, durable_fifo |-> durable_fifo,
       seq |-> seq]

\* conn.commit(): everything pending on the connection becomes durable
Commit(db) == [db EXCEPT !.durable_fifo = db.sale_fifo]

LinesOfSale(db, sale_id) == {l \in DOMAIN db.sale_items : db.sale_items[l].sale_id = sale_id}

BatchDate(db, b) == db.invoices[db.invoice_items[b].invoice_id]

\* ORDER BY ii.id: the receipt date is not consulted
BatchBeforeById(db, a, b) == a < b

\* ORDER BY i.invoice_date, ii.id
BatchBefore(db, a, b) ==
    \/ BatchDate(db, a) < BatchDate(db, b)
    \/ BatchDate(db, a) = BatchDate(db, b) /\ a < b

\* WHERE ii.product_id = ? AND i.invoice_date <= ?
\* a selection of batches without the product_id condition
EligibleBatchesOfAnyProduct(db, product_id, sale_date) ==
    {b \in DOMAIN db.invoice_items :
        /\ db.invoice_items[b].invoice_id \in DOMAIN db.invoices
        /\ BatchDate(db, b) <= sale_date}

EligibleBatches(db, product_id, sale_date) ==
    {b \in DOMAIN db.invoice_items :
        /\ db.invoice_items[b].product_id = product_id
        /\ db.invoice_items[b].invoice_id \in DOMAIN db.invoices
        /\ BatchDate(db, b) <= sale_date}

RECURSIVE OrderBatches(_, _)
OrderBatches(db, S) ==
    IF S = {} THEN <<>>
    ELSE LET m == CHOOSE x \in S : \A y \in S \ {x} : BatchBefore(db, x, y)
         IN <<m>> \o OrderBatches(db, S \ {m})

\* SELECT COALESCE(SUM(qty),0) FROM sale_fifo WHERE batch_id = ?
Used(fifo, batch_id) == SumQty({r \in fifo : r.batch_id = batch_id})


\* ------------------------------------------------- recalc_fifo_for_sale
\* One allocation row: INSERT INTO sale_fifo (sale_item_id, batch_id, qty, cost_price)
FifoRow(id, si_id, batch_id, take, cost) ==
    [id |-> id, sale_item_id |-> si_id, batch_id |-> batch_id, qty |-> take, cost_price |-> cost]

\* The inner loop: for batch_id, batch_qty, cost in batches.  st carries the
\* connection's view of sale_fifo, its AUTOINCREMENT counter, the number of
\* INSERTs done and failAt: the INSERT (counted from 1) on which the storage
\* raises, 0 for none.
RECURSIVE AllocBatches(_, _, _, _, _)
AllocBatches(st, db, si_id, batches, remaining) ==
    IF batches = <<>> \/ ~st.ok THEN st
    ELSE LET batch_id == Head(batches)
             used == Used(st.fifo, batch_id)
             available == db.invoice_items[batch_id].qty - used
         IN  IF available <= 0
             THEN AllocBatches(st, db, si_id, Tail(batches), remaining)
             ELSE LET take == Min(available, remaining)
                      row == FifoRow(st.seq + 1, si_id, batch_id, take,
                                     db.invoice_items[batch_id].price)
                      st2 == [st EXCEPT !.fifo = @ \cup {row}, !.seq = @ + 1,
                                        !.inserts = @ + 1]
                  IN  IF st.inserts + 1 = st.failAt
                      THEN [st EXCEPT !.ok = FALSE]
                      ELSE IF remaining - take <= 0
                           THEN st2
                           ELSE AllocBatches(st2, db, si_id, Tail(batches), remaining - take)

\* The outer loop: for si_id, product_id, qty_need in items
RECURSIVE AllocItems(_, _, _, _)
AllocItems(st, db, sale_date, items) ==
    IF items = <<>> \/ ~st.ok THEN st
    ELSE LET si_id == Head(items)
             line == db.sale_items[si_id]
             batches == OrderBatches(db, EligibleBatches(db, line.product_id, sale_date))
         IN  AllocItems(AllocBatches(st, db, si_id, batches, line.qty),
                        db, sale_date, Tail(items))

\* recalc_fifo_for_sale without its DELETE: the sale's old rows stay and count
\* as used
recalc_without_delete(db, sale_id, failAt) ==
    LET st0 == [fifo |-> db.sale_fifo, seq |-> db.seq.sale_fifo, inserts |-> 0,
                failAt |-> failAt, ok |-> TRUE]
        st == AllocItems(st0, db, db.sales[sale_id], Ascending(LinesOfSale(db, sale_id)))
    IN  [db |-> Commit([db EXCEPT !.sale_fifo = st.fifo, !.seq.sale_fifo = st.seq]),
         ok |-> TRUE]

\* a recalc whose DELETE has no WHERE clause: every sale's rows go
recalc_deletes_all_rows(db, sale_id, failAt) ==
    LET db1 == Commit([db EXCEPT !.sale_fifo = {}])
        st0 == [fifo |-> {}, seq |-> db.seq.sale_fifo, inserts |-> 0,
                failAt |-> failAt, ok |-> TRUE]
        st == AllocItems(st0, db1, db.sales[sale_id], Ascending(LinesOfSale(db, sale_id)))
        db2 == [db1 EXCEPT !.sale_fifo = st.fifo, !.seq.sale_fifo = st.seq]
    IN  IF st.ok THEN [db |-> Commit(db2), ok |-> TRUE] ELSE [db |-> db2, ok |-> FALSE]

\* recalc_fifo_for_sale(conn, sale_id): [db |-> the database afterwards,
\* ok |-> FALSE when it raised].  The DELETE is committed before the rebuild;
\* the rebuilt rows are committed only by the final commit.
recalc_fifo_for_sale(db, sale_id, failAt) ==
    LET kept == {r \in db.sale_fifo : r.sale_item_id \notin LinesOfSale(db, sale_id)}
        db1 == Commit([db EXCEPT !.sale_fifo = kept])
        items == Ascending(LinesOfSale(db, sale_id))
        st0 == [fifo |-> kept, seq |-> db.seq.sale_fifo, inserts |-> 0,
                failAt |-> failAt, ok |-> TRUE]
    IN  IF sale_id \notin DOMAIN db.sales
        THEN [db |-> db1, ok |-> FALSE]    \* fetchone() is None: TypeError
        ELSE LET st == AllocItems(st0, db1, db.sales[sale_id], items)
                 db2 == [db1 EXCEPT !.sale_fifo = st.fifo, !.seq.sale_fifo = st.seq]
             IN  IF st.ok THEN [db |-> Commit(db2), ok |-> TRUE]
                 ELSE [db |-> db2, ok |-> FALSE]

\* ------------------------------------------------------ batch handlers
insert_invoice_db(db, date_str) ==
    Commit([db EXCEPT !.invoices = [i \in DOMAIN @ \cup {db.seq.invoices + 1} |->
                                      IF i \in DOMAIN @ THEN @[i] ELSE date_str],
                      !.seq.invoices = @ + 1])

add_item_db(db, invoice_id, product_id, qty, price) ==
    LET id == db.seq.invoice_items + 1
        row == [invoice_id |-> invoice_id, product_id |-> product_id, qty |-> qty,
                price |-> price]
    IN  Commit([db EXCEPT !.invoice_items = [b \in DOMAIN @ \cup {id} |->
                                               IF b \in DOMAIN @ THEN @[b] ELSE row],
                          !.seq.invoice_items = id])

\* an update that carries the new price into the rows drawn from the batch
update_invoice_item_reprices_rows(db, item_id, qty, price) ==
    Commit([db EXCEPT !.invoice_items[item_id].qty = qty,
                      !.invoice_items[item_id].price = price,
                      !.sale_fifo = {IF r.batch_id = item_id
                                     THEN [r EXCEPT !.cost_price = price] ELSE r : r \in @}])

update_invoice_item_db(db, item_id, qty, price) ==
    Commit([db EXCEPT !.invoice_items[item_id].qty = qty,
                      !.invoice_items[item_id].price = price])

delete_invoice_item_db(db, item_id) ==
    Commit([db EXCEPT !.invoice_items = [b \in DOMAIN @ \ {item_id} |-> @[b]]])

\* the invoice header form: UPDATE invoices SET ... invoice_date = ? WHERE id = ?
invoice_header_save_db(db, invoice_id, new_date) ==
    Commit([db EXCEPT !.invoices[invoice_id] = new_date])

\* ------------------------------------------------------- sale handlers
insert_sale_db(db, date_str) ==
    Commit([db EXCEPT !.sales = [i \in DOMAIN @ \cup {db.seq.sales + 1} |->
                                   IF i \in DOMAIN @ THEN @[i] ELSE date_str],
                      !.seq.sales = @ + 1])

\* add_sale_item: INSERT, commit, then recalc_fifo_for_sale inside try/except: pass
add_sale_item_db(db, sale_id, product_id, qty, price, failAt) ==
    LET id == db.seq.sale_items + 1
        row == [sale_id |-> sale_id, product_id |-> product_id, qty |-> qty,
                price |-> price, total |-> qty * price]
        db1 == Commit([db EXCEPT !.sale_items = [l \in DOMAIN @ \cup {id} |->
                                                   IF l \in DOMAIN @ THEN @[l] ELSE row],
                                 !.seq.sale_items = id])
    IN  recalc_fifo_for_sale(db1, sale_id, failAt)

\* a marketplace insert that allocates only lines that bring money in
add_sale_item_mp_skips_unpaid(db, sale_id, product_id, qty, price, gross_total, mp_fee, mp_delivery, net_total, failAt) ==
    LET id == db.seq.sale_items + 1
        row == [sale_id |-> sale_id, product_id |-> product_id, qty |-> qty,
                price |-> price, total |-> gross_total, gross_price |-> price,
                gross_total |-> gross_total, mp_fee |-> mp_fee,
                mp_delivery |-> mp_delivery, net_total |-> net_total]
        db1 == Commit([db EXCEPT !.sale_items = [l \in DOMAIN @ \cup {id} |->
                                                   IF l \in DOMAIN @ THEN @[l] ELSE row],
                                 !.seq.sale_items = id])
    IN  IF net_total <= 0 THEN [db |-> db1, ok |-> TRUE]
        ELSE recalc_fifo_for_sale(db1, sale_id, failAt)

\* add_sale_item_mp: INSERT with the marketplace columns, commit, recalc inside
\* try/except: pass.  total holds gross_total and gross_price holds price.  (On
\* a database without the marketplace columns the INSERT raises and the
\* handler falls back on add_sale_item; the columns are added at start.)
add_sale_item_mp_db(db, sale_id, product_id, qty, price, gross_total, mp_fee, mp_delivery, net_total, failAt) ==
    LET id == db.seq.sale_items + 1
        row == [sale_id |-> sale_id, product_id |-> product_id, qty |-> qty,
                price |-> price, total |-> gross_total, gross_price |-> price,
                gross_total |-> gross_total, mp_fee |-> mp_fee,
                mp_delivery |-> mp_delivery, net_total |-> net_total]
        db1 == Commit([db EXCEPT !.sale_items = [l \in DOMAIN @ \cup {id} |->
                                                   IF l \in DOMAIN @ THEN @[l] ELSE row],
                                 !.seq.sale_items = id])
    IN  recalc_fifo_for_sale(db1, sale_id, failAt)

\* the UPDATE and the commit without the recalc
update_sale_item_without_recalc(db, item_id, qty, price, failAt) ==
    [db |-> Commit([db EXCEPT !.sale_items[item_id].qty = qty,
                              !.sale_items[item_id].price = price,
                              !.sale_items[item_id].total = qty * price]),
     ok |-> TRUE]

\* update_sale_item: UPDATE, commit, look the sale up, recalc inside try/except: pass
update_sale_item_db(db, item_id, qty, price, failAt) ==
    LET db1 == Commit([db EXCEPT !.sale_items[item_id].qty = qty,
                                 !.sale_items[item_id].price = price,
                                 !.sale_items[item_id].total = qty * price])
    IN  recalc_fifo_for_sale(db1, db1.sale_items[item_id].sale_id, failAt)

\* delete_sale_item: look the sale up, DELETE the line, commit, recalc the sale
delete_sale_item_db(db, item_id, failAt) ==
    LET sale_id == db.sale_items[item_id].sale_id
        db1 == Commit([db EXCEPT !.sale_items = [l \in DOMAIN @ \ {item_id} |-> @[l]]])
    IN  recalc_fifo_for_sale(db1, sale_id, failAt)

\* the sale header form: UPDATE sales SET ... sale_date = ?, commit, recalc
sale_header_save_db(db, sale_id, new_date, failAt) ==
    LET db1 == Commit([db EXCEPT !.sales[sale_id] = new_date])
    IN  recalc_fifo_for_sale(db1, sale_id, failAt)

\* a deletion of the sale and its lines that leaves their sale_fifo rows
delete_sale_keeps_rows(db, sale_id) ==
    LET lines == LinesOfSale(db, sale_id)
    IN  Commit([db EXCEPT
            !.sale_items = [l \in DOMAIN @ \ lines |-> @[l]],
            !.sales = [i \in DOMAIN @ \ {sale_id} |-> @[i]]])

\* delete_sale: DELETE the sale's sale_fifo rows, its lines and the sale; commit
delete_sale_db(db, sale_id) ==
    LET lines == LinesOfSale(db, sale_id)
    IN  Commit([db EXCEPT
            !.sale_fifo = {r \in @ : r.sale_item_id \notin lines},
            !.sale_items = [l \in DOMAIN @ \ lines |-> @[l]],
            !.sales = [i \in DOMAIN @ \ {sale_id} |-> @[i]]])

\* upsert_marketplace_sale / create_or_overwrite_month_sale with overwrite=True
\* on an existing sale: UPDATE the header, DELETE FROM sale_items, commit
upsert_marketplace_sale_db(db, existing_id, sale_date_str) ==
    LET lines == LinesOfSale(db, existing_id)
    IN  Commit([db EXCEPT
            !.sales[existing_id] = sale_date_str,
            !.sale_items = [l \in DOMAIN @ \ lines |-> @[l]]])

\* ------------------------------------------------- mass FIFO recalculation
\* a selection without the WHERE clause
AllSales(db) == DOMAIN db.sales

\* SELECT id FROM sales WHERE DATE(sale_date) >= FIFO_START_DATE
InWindow(db) == {s \in DOMAIN db.sales : db.sales[s] >= FIFO_START_DATE}

\* ... ORDER BY sale_date: every order of the rows that ascends by date
\* (SQL leaves the order of equal dates open)
MassOrders(db) ==
    LET W == InWindow(db)
        n == Cardinality(W)
    IN  {o \in [1..n -> W] :
            /\ \A i, j \in 1..n : i # j => o[i] # o[j]
            /\ \A i, j \in 1..n : i < j => db.sales[o[i]] <= db.sales[o[j]]}

\* a loop that leaves at the first sale whose recompute raises
RECURSIVE MassLoopStopsAtFailure(_, _, _, _)
MassLoopStopsAtFailure(db, rows, fails, errors) ==
    IF rows = <<>> THEN [db |-> db, errors |-> errors, calls |-> <<>>]
    ELSE LET sid == Head(rows)
             r == recalc_fifo_for_sale(db, sid, fails[sid])
             rest == IF r.ok THEN MassLoopStopsAtFailure(r.db, Tail(rows), fails, errors)
                     ELSE [db |-> r.db,
                           errors |-> Append(errors, [sid |-> sid, message |-> fails[sid]]),
                           calls |-> <<>>]
         IN  [rest EXCEPT !.calls = <<[sid |-> sid, ok |-> r.ok]>> \o @]

\* for sid, sn in rows: try recalc_fifo_for_sale except: errors.append((sid, sn, str(e)))
\* fails maps a sale id to the INSERT on which its recompute raises (0: none);
\* the message of the exception names that INSERT.  calls lists the
\* recalc_fifo_for_sale calls of the loop in order, each with its outcome.
RECURSIVE MassLoop(_, _, _, _)
MassLoop(db, rows, fails, errors) ==
    IF rows = <<>> THEN [db |-> db, errors |-> errors, calls |-> <<>>]
    ELSE LET sid == Head(rows)
             r == recalc_fifo_for_sale(db, sid, fails[sid])
             rest == MassLoop(r.db, Tail(rows), fails,
                              IF r.ok THEN errors
                              ELSE Append(errors, [sid |-> sid, message |-> fails[sid]]))
         IN  [rest EXCEPT !.calls = <<[sid |-> sid, ok |-> r.ok]>> \o @]

mass_recalc_db(db, rows, fails) == MassLoop(db, rows, fails, <<>>)

\* ------------------------------------------------------ stock control (v12)
\* COALESCE(SUM(qty), 0) over the rows `ids` of a table
RECURSIVE SumOfQty(_, _)
SumOfQty(table, ids) ==
    IF ids = {} THEN 0
    ELSE LET x == CHOOSE y \in ids : TRUE IN table[x].qty + SumOfQty(table, ids \ {x})

\* invoice_items JOIN invoices WHERE product_id = ? AND invoice_date <= ?
ReceivedBy(db, product_id, on_date) ==
    {b \in DOMAIN db.invoice_items :
        /\ db.invoice_items[b].product_id = product_id
        /\ db.invoice_items[b].invoice_id \in DOMAIN db.invoices
        /\ BatchDate(db, b) <= on_date}

\* sale_items JOIN sales WHERE product_id = ? AND sale_date <= ?
SoldBy(db, product_id, on_date) ==
    {l \in DOMAIN db.sale_items :
        /\ db.sale_items[l].product_id = product_id
        /\ db.sale_items[l].sale_id \in DOMAIN db.sales
        /\ db.sales[db.sale_items[l].sale_id] <= on_date}

get_stock_on_date(db, product_id, on_date) ==
    SumOfQty(db.invoice_items, ReceivedBy(db, product_id, on_date))
        - SumOfQty(db.sale_items, SoldBy(db, product_id, on_date))

\* a guard that counts the lines of the sale being entered as sold too
get_available_stock_counting_own(db, product_id, on_date, exclude_sale_id) ==
    get_stock_on_date(db, product_id, on_date)

\* exclude_sale_id = 0 stands for None: `if exclude_sale_id:` takes the else
\* branch for both
get_available_stock(db, product_id, on_date, exclude_sale_id) ==
    LET in_qty == SumOfQty(db.invoice_items, ReceivedBy(db, product_id, on_date))
        sold == SoldBy(db, product_id, on_date)
        out_qty == IF exclude_sale_id # 0
                   THEN SumOfQty(db.sale_items,
                                 {l \in sold : db.sale_items[l].sale_id # exclude_sale_id})
                   ELSE SumOfQty(db.sale_items, sold)
    IN  in_qty - out_qty

\* safe_add_sale_item: raise ValueError when qty > available, else
\* add_sale_item.  rejected |-> the ValueError was raised.
safe_add_sale_item_db(db, sale_id, product_id, qty, price, failAt) ==
    LET sale_date == db.sales[sale_id]
        available == get_available_stock(db, product_id, sale_date, sale_id)
    IN  IF qty > available
        THEN [db |-> db, ok |-> TRUE, rejected |-> TRUE]
        ELSE LET r == add_sale_item_db(db, sale_id, product_id, qty, price, failAt)
             IN  [db |-> r.db, ok |-> r.ok, rejected |-> FALSE]

\* ----------------------------------------------------------------- actions
\* a step in which no recalc_fifo_for_sale call completed or raised; the
\* handlers end with st.success or return None, and recalc_fifo_for_sale has
\* no return statement
Quiet == [sale |-> 0, bulk |-> FALSE, raised |-> {}, told |-> "ok", attempts |-> <<>>,
          errors |-> <<>>, returned |-> {}, guarded |-> <<>>]

\* a session that is not inside recalc_fifo_for_sale
Idle == [pc |-> "idle", sale |-> 0, items |-> <<>>, batches |-> <<>>, remaining |-> 0,
         available |-> 0]

\* The ledger the runs start from: the purchase and sale documents are
\* entered (insert_invoice, insert_sale), no invoice line and no sale line
\* yet.  Document i is dated MaxDate, MaxDate - 1, ... so that a later
\* document can carry an earlier date.
InitDate(i) == MaxDate - ((i - 1) % MaxDate)

\* the database file right after the CREATE TABLE statements
Empty ==
    [invoices |-> <<>>, invoice_items |-> <<>>, sales |-> <<>>, sale_items |-> <<>>,
     sale_fifo |-> {}, durable_fifo |-> {},
     seq |-> [invoices |-> 0, invoice_items |-> 0, sales |-> 0, sale_items |-> 0,
              sale_fifo |-> 0]]

RECURSIVE EnterInvoices(_, _)
EnterInvoices(db, n) ==
    IF n = 0 THEN db ELSE insert_invoice_db(EnterInvoices(db, n - 1), InitDate(n))

RECURSIVE EnterSales(_, _)
EnterSales(db, n) ==
    IF n = 0 THEN db ELSE insert_sale_db(EnterSales(db, n - 1), InitDate(n))

Opening == EnterSales(EnterInvoices(Empty, MaxInvoices), MaxSales)

Init ==
    /\ invoices = Opening.invoices
    /\ invoice_items = Opening.invoice_items
    /\ sales = Opening.sales
    /\ sale_items = Opening.sale_items
    /\ sale_fifo = Opening.sale_fifo
    /\ durable_fifo = Opening.durable_fifo
    /\ seq = Opening.seq
    /\ last = Quiet
    /\ sess = [t \in Sessions |-> Idle]

\* the handler leaves the database as db
Store(db) ==
    /\ db.seq.sale_fifo <= MaxFifoId
    /\ invoices' = db.invoices
    /\ invoice_items' = db.invoice_items
    /\ sales' = db.sales
    /\ sale_items' = db.sale_items
    /\ sale_fifo' = db.sale_fifo
    /\ durable_fifo' = db.durable_fifo
    /\ seq' = db.seq
    /\ sess' = sess

\* the handler called recalc_fifo_for_sale(conn, sale) (sale = 0: it called
\* none), which returned (ok) or raised
Ran(sale, ok) ==
    last' = [Quiet EXCEPT !.sale = IF ok THEN sale ELSE 0,
                          !.raised = IF ok THEN {} ELSE {sale}]

add_item(invoice_id, product_id, qty, price) ==
    /\ seq.invoice_items < MaxBatches
    /\ invoice_id \in DOMAIN invoices
    /\ Store(add_item_db(DB, invoice_id, product_id, qty, price))
    /\ Ran(0, TRUE)

update_invoice_item(item_id, qty, price) ==
    /\ item_id \in DOMAIN invoice_items
    /\ Store(update_invoice_item_db(DB, item_id, qty, price))
    /\ Ran(0, TRUE)

delete_invoice_item(item_id) ==
    /\ item_id \in DOMAIN invoice_items
    /\ Store(delete_invoice_item_db(DB, item_id))
    /\ Ran(0, TRUE)

invoice_header_save(invoice_id, new_date) ==
    /\ invoice_id \in DOMAIN invoices
    /\ Store(invoice_header_save_db(DB, invoice_id, new_date))
    /\ Ran(0, TRUE)

add_sale_item(sale_id, product_id, qty, price, failAt) ==
    /\ seq.sale_items < MaxLines
    /\ sale_id \in DOMAIN sales
    /\ LET r == add_sale_item_db(DB, sale_id, product_id, qty, price, failAt)
       IN  Store(r.db) /\ Ran(sale_id, r.ok)

safe_add_sale_item(sale_id, product_id, qty, price, failAt) ==
    /\ seq.sale_items < MaxLines
    /\ sale_id \in DOMAIN sales
    /\ LET r == safe_add_sale_item_db(DB, sale_id, product_id, qty, price, failAt)
       IN  /\ Store(r.db)
           /\ last' = [Quiet EXCEPT
                  !.sale = IF r.ok /\ ~r.rejected THEN sale_id ELSE 0,
                  !.raised = IF r.ok THEN {} ELSE {sale_id},
                  !.told = IF r.rejected THEN "failed" ELSE "ok",
                  !.guarded = <<sale_id, product_id, qty>>]

add_sale_item_mp(sale_id, product_id, qty, price, gross_total, mp_fee, mp_delivery, net_total, failAt) ==
    /\ seq.sale_items < MaxLines
    /\ sale_id \in DOMAIN sales
    /\ LET r == add_sale_item_mp_db(DB, sale_id, product_id, qty, price, gross_total, mp_fee,
                                    mp_delivery, net_total, failAt)
       IN  Store(r.db) /\ Ran(sale_id, r.ok)

update_sale_item(item_id, qty, price, failAt) ==
    /\ item_id \in DOMAIN sale_items
    /\ LET r == update_sale_item_db(DB, item_id, qty, price, failAt)
       IN  Store(r.db) /\ Ran(sale_items[item_id].sale_id, r.ok)

delete_sale_item(item_id, failAt) ==
    /\ item_id \in DOMAIN sale_items
    /\ LET r == delete_sale_item_db(DB, item_id, failAt)
       IN  Store(r.db) /\ Ran(sale_items[item_id].sale_id, r.ok)

sale_header_save(sale_id, new_date, failAt) ==
    /\ sale_id \in DOMAIN sales
    /\ LET r == sale_header_save_db(DB, sale_id, new_date, failAt)
       IN  Store(r.db) /\ Ran(sale_id, r.ok)

\* the button "recalculate FIFO for this sale"
manual_recalc(sale_id, failAt) ==
    /\ sale_id \in DOMAIN sales
    /\ LET r == recalc_fifo_for_sale(DB, sale_id, failAt)
       IN  /\ Store(r.db)
           /\ last' = [Quiet EXCEPT !.sale = IF r.ok THEN sale_id ELSE 0,
                                    !.raised = IF r.ok THEN {} ELSE {sale_id},
                                    !.told = IF r.ok THEN "ok" ELSE "failed"]

delete_sale(sale_id) ==
    /\ sale_id \in DOMAIN sales
    /\ Store(delete_sale_db(DB, sale_id))
    /\ Ran(0, TRUE)

upsert_marketplace_sale(existing_id, sale_date_str) ==
    /\ existing_id \in DOMAIN sales
    /\ Store(upsert_marketplace_sale_db(DB, existing_id, sale_date_str))
    /\ Ran(0, TRUE)

\* the button "recalculate FIFO for all sales"
mass_recalc(rows, fails) ==
    /\ rows \in MassOrders(DB)
    /\ Len(rows) > 0
    /\ LET r == mass_recalc_db(DB, rows, fails)
       IN  /\ Store(r.db)
           /\ last' = [Quiet EXCEPT
                  !.sale = IF r.calls[Len(r.calls)].ok THEN r.calls[Len(r.calls)].sid ELSE 0,
                  !.bulk = (r.errors = <<>>),
                  !.raised = {r.calls[i].sid : i \in {j \in 1..Len(r.calls) : ~r.calls[j].ok}},
                  !.told = IF r.errors = <<>> THEN "ok" ELSE "failed",
                  !.attempts = [i \in 1..Len(r.calls) |-> r.calls[i].sid],
                  !.errors = r.errors]

\* the unit price the supplier of invoice i charges
PriceList == [i \in 1..MaxInvoices |-> ((i - 1) % MaxPrice) + 1]

\* ------------------------------- recalc_fifo_for_sale, statement by statement
\* A session runs recalc_fifo_for_sale on the shared connection one SQL
\* statement at a time; the statements of two sessions interleave.

\* for item in items: fetch the line's batches, remaining = qty_need; a line
\* without batches is passed over; after the last line the commit is left
RECURSIVE NextItem(_, _, _)
NextItem(db, loc, items) ==
    IF items = <<>> THEN [loc EXCEPT !.pc = "commit", !.items = <<>>, !.batches = <<>>]
    ELSE LET line == db.sale_items[Head(items)]
             batches == OrderBatches(db, EligibleBatches(db, line.product_id, db.sales[loc.sale]))
         IN  IF batches = <<>> THEN NextItem(db, loc, Tail(items))
             ELSE [loc EXCEPT !.pc = "used", !.items = items, !.batches = batches,
                              !.remaining = line.qty]

\* for batch in batches: the next batch, or the next line after the last one
NextBatch(db, loc) ==
    IF Tail(loc.batches) = <<>> THEN NextItem(db, loc, Tail(loc.items))
    ELSE [loc EXCEPT !.pc = "used", !.batches = Tail(@)]

\* DELETE the sale's rows, commit, SELECT the lines and the sale date
recalc_start(t, sale_id) ==
    /\ sess[t].pc = "idle"
    /\ sale_id \in DOMAIN sales
    /\ LET kept == {r \in sale_fifo : r.sale_item_id \notin LinesOfSale(DB, sale_id)}
       IN  /\ sale_fifo' = kept
           /\ durable_fifo' = kept
           /\ sess' = [sess EXCEPT ![t] =
                  NextItem(DB, [Idle EXCEPT !.sale = sale_id],
                           Ascending(LinesOfSale(DB, sale_id)))]
    /\ last' = Quiet
    /\ UNCHANGED <<invoices, invoice_items, sales, sale_items, seq>>

\* used = SELECT SUM(qty) ...; available = batch_qty - used; if available <= 0: continue
recalc_used(t) ==
    /\ sess[t].pc = "used"
    /\ LET loc == sess[t]
           batch_id == Head(loc.batches)
           available == invoice_items[batch_id].qty - Used(sale_fifo, batch_id)
       IN  sess' = [sess EXCEPT ![t] =
                      IF available <= 0 THEN NextBatch(DB, loc)
                      ELSE [loc EXCEPT !.pc = "insert", !.available = available]]
    /\ last' = Quiet
    /\ UNCHANGED <<invoices, invoice_items, sales, sale_items, sale_fifo, durable_fifo, seq>>

\* take = min(available, remaining); INSERT; remaining -= take; if remaining <= 0: break
recalc_insert(t) ==
    /\ sess[t].pc = "insert"
    /\ seq.sale_fifo < MaxFifoId
    /\ LET loc == sess[t]
           batch_id == Head(loc.batches)
           take == Min(loc.available, loc.remaining)
           row == FifoRow(seq.sale_fifo + 1, Head(loc.items), batch_id, take,
                          invoice_items[batch_id].price)
           loc2 == [loc EXCEPT !.remaining = @ - take]
       IN  /\ sale_fifo' = sale_fifo \cup {row}
           /\ seq' = [seq EXCEPT !.sale_fifo = @ + 1]
           /\ sess' = [sess EXCEPT ![t] =
                  IF loc2.remaining <= 0 THEN NextItem(DB, loc2, Tail(loc2.items))
                  ELSE NextBatch(DB, loc2)]
    /\ last' = Quiet
    /\ UNCHANGED <<invoices, invoice_items, sales, sale_items, durable_fifo>>

\* the final conn.commit()
recalc_commit(t) ==
    /\ sess[t].pc = "commit"
    /\ durable_fifo' = sale_fifo
    /\ sess' = [sess EXCEPT ![t] = Idle]
    /\ last' = [Quiet EXCEPT !.sale = sess[t].sale]
    /\ UNCHANGED <<invoices, invoice_items, sales, sale_items, sale_fifo, seq>>

NoSessionRuns == \A t \in Sessions : sess[t].pc = "idle"

NoFails == [s \in 1..MaxSales |-> 0]

\* ---------------------------------------------------------- specification
\* Stock is entered and its quantities corrected while sale lines are
\* entered, corrected and recomputed; every storage call succeeds.
Next ==
    \/ \E i \in 1..MaxInvoices, p \in Products, q \in BatchQtys : add_item(i, p, q, PriceList[i])
    \/ \E b \in 1..MaxBatches, q \in BatchQtys :
            b \in DOMAIN invoice_items /\ update_invoice_item(b, q, invoice_items[b].price)
    \/ \E s \in 1..MaxSales, p \in Products, q \in SaleQtys : add_sale_item(s, p, q, 1, 0)
    \/ \E l \in 1..MaxLines, q \in SaleQtys : update_sale_item(l, q, 1, 0)
    \/ \E s \in 1..MaxSales : manual_recalc(s, 0)

Spec == Init /\ [][Next]_vars

\* As Spec, and no sale line requests a negative quantity.
NextValid ==
    \/ \E i \in 1..MaxInvoices, p \in Products, q \in BatchQtys : add_item(i, p, q, PriceList[i])
    \/ \E b \in 1..MaxBatches, q \in BatchQtys :
            b \in DOMAIN invoice_items /\ update_invoice_item(b, q, invoice_items[b].price)
    \/ \E s \in 1..MaxSales, p \in Products, q \in 0..MaxQty : add_sale_item(s, p, q, 1, 0)
    \/ \E l \in 1..MaxLines, q \in 0..MaxQty : update_sale_item(l, q, 1, 0)
    \/ \E s \in 1..MaxSales : manual_recalc(s, 0)

SpecValid == Init /\ [][NextValid]_vars

\* Stock and sale lines are entered with positive quantities, and batches,
\* sale lines, a sale's lines (marketplace overwrite) and sales are deleted.
NextDel ==
    \/ \E i \in 1..MaxInvoices, q \in BatchQtys : add_item(i, 1, q, PriceList[i])
    \/ \E s \in 1..MaxSales, q \in 1..MaxQty : add_sale_item(s, 1, q, 1, 0)
    \/ \E b \in 1..MaxBatches : delete_invoice_item(b)
    \/ \E l \in 1..MaxLines : delete_sale_item(l, 0)
    \/ \E s \in 1..MaxSales, d \in Dates : upsert_marketplace_sale(s, d)
    \/ \E s \in 1..MaxSales : delete_sale(s)

SpecDel == Init /\ [][NextDel]_vars

\* Stock is entered and sale lines are entered (by hand and by the marketplace
\* import), corrected and deleted and sale dates edited, all with positive
\* quantities; every storage call succeeds.
NextSale ==
    \/ \E i \in 1..MaxInvoices : add_item(i, 1, MaxQty, PriceList[i])
    \/ \E s \in 1..MaxSales, q \in 1..MaxQty : add_sale_item(s, 1, q, 1, 0)
    \/ \E s \in 1..MaxSales, q \in 1..MaxQty : add_sale_item_mp(s, 1, q, 1, q, 0, 0, q, 0)
    \/ \E l \in 1..MaxLines, q \in 1..MaxQty : update_sale_item(l, q, 1, 0)
    \/ \E l \in 1..MaxLines : delete_sale_item(l, 0)
    \/ \E s \in 1..MaxSales, d \in Dates : sale_header_save(s, d, 0)

SpecSale == Init /\ [][NextSale]_vars

\* Stock and sale lines are entered with positive quantities, invoice dates
\* are edited and the mass FIFO recalculation is run; every storage call
\* succeeds.
NextMass ==
    \/ \E i \in 1..MaxInvoices, q \in BatchQtys : add_item(i, 1, q, PriceList[i])
    \/ \E s \in 1..MaxSales, q \in 1..MaxQty : add_sale_item(s, 1, q, 1, 0)
    \/ \E i \in 1..MaxInvoices, d \in Dates : invoice_header_save(i, d)
    \/ \E rows \in MassOrders(DB) : mass_recalc(rows, NoFails)

SpecMass == Init /\ [][NextMass]_vars

\* Stock and sale lines are entered, sale dates are edited (so that sales may
\* share a date) and the mass FIFO recalculation is run; every storage call
\* succeeds.
NextBulk ==
    \/ \E i \in 1..MaxInvoices : add_item(i, 1, MaxQty, PriceList[i])
    \/ \E s \in 1..MaxSales, q \in 1..MaxQty : add_sale_item(s, 1, q, 1, 0)
    \/ \E s \in 1..MaxSales, d \in Dates : sale_header_save(s, d, 0)
    \/ \E rows \in MassOrders(DB) : mass_recalc(rows, NoFails)

SpecBulk == Init /\ [][NextBulk]_vars

\* Stock and sale lines are entered, batch prices are edited and single sales
\* are recomputed; every storage call succeeds.
NextCost ==
    \/ \E i \in 1..MaxInvoices, q \in BatchQtys : add_item(i, 1, q, PriceList[i])
    \/ \E b \in 1..MaxBatches, pr \in Prices :
            b \in DOMAIN invoice_items /\ update_invoice_item(b, invoice_items[b].qty, pr)
    \/ \E s \in 1..MaxSales, q \in 1..MaxQty : add_sale_item(s, 1, q, 1, 0)
    \/ \E s \in 1..MaxSales : manual_recalc(s, 0)

SpecCost == Init /\ [][NextCost]_vars

\* Stock is entered and sale lines are entered through safe_add_sale_item
\* only; no batch is edited or deleted and every storage call succeeds.
NextSafe ==
    \/ \E i \in 1..MaxInvoices, p \in Products, q \in BatchQtys : add_item(i, p, q, PriceList[i])
    \/ \E s \in 1..MaxSales, p \in Products, q \in 1..MaxQty : safe_add_sale_item(s, p, q, 1, 0)

SpecSafe == Init /\ [][NextSafe]_vars

\* Stock is entered and sale lines are entered by hand and by the marketplace
\* import at varying prices and fees (gross total = qty * price and net total
\* = gross - fee - delivery, as the import computes them); every storage call
\* succeeds.
NextMoney ==
    \/ \E i \in 1..MaxInvoices : add_item(i, 1, MaxQty, PriceList[i])
    \/ \E s \in 1..MaxSales, q \in 1..MaxQty, pr \in Prices : add_sale_item(s, 1, q, pr, 0)
    \/ \E s \in 1..MaxSales, q \in 1..MaxQty, pr \in Prices, fee \in Charges :
            add_sale_item_mp(s, 1, q, pr, q * pr, fee, 0, (q * pr) - fee, 0)

SpecMoney == Init /\ [][NextMoney]_vars

\* Stock and sale lines are entered, invoices and sales are moved to the day
\* before FIFO_START_DATE and the mass FIFO recalculation is run; every
\* storage call succeeds.
NextCutoff ==
    \/ \E i \in 1..MaxInvoices : add_item(i, 1, MaxQty, PriceList[i])
    \/ \E s \in 1..MaxSales, q \in 1..MaxQty : add_sale_item(s, 1, q, 1, 0)
    \/ \E i \in 1..MaxInvoices : invoice_header_save(i, FIFO_START_DATE - 1)
    \/ \E s \in 1..MaxSales : sale_header_save(s, FIFO_START_DATE - 1, 0)
    \/ \E rows \in MassOrders(DB) : mass_recalc(rows, NoFails)

SpecCutoff == Init /\ [][NextCutoff]_vars

\* Stock and sale lines of both products are entered and corrected, and
\* batches and sale lines are deleted; every storage call succeeds.
NextProd ==
    \/ \E i \in 1..MaxInvoices, p \in Products : add_item(i, p, MaxQty, PriceList[i])
    \/ \E s \in 1..MaxSales, p \in Products, q \in 1..MaxQty : add_sale_item(s, p, q, 1, 0)
    \/ \E l \in 1..MaxLines, q \in 1..MaxQty : update_sale_item(l, q, 1, 0)
    \/ \E b \in 1..MaxBatches : delete_invoice_item(b)
    \/ \E l \in 1..MaxLines : delete_sale_item(l, 0)

SpecProd == Init /\ [][NextProd]_vars

\* As SpecMass, with single recomputes, and an INSERT INTO sale_fifo may raise.
NextFail ==
    \/ \E i \in 1..MaxInvoices, q \in BatchQtys : add_item(i, 1, q, PriceList[i])
    \/ \E s \in 1..MaxSales, q \in 1..MaxQty, f \in 0..MaxFailAt : add_sale_item(s, 1, q, 1, f)
    \/ \E s \in 1..MaxSales, f \in 0..MaxFailAt : manual_recalc(s, f)
    \/ \E rows \in MassOrders(DB), fails \in [1..MaxSales -> 0..MaxFailAt] :
            mass_recalc(rows, fails)

SpecFail == Init /\ [][NextFail]_vars

\* Stock and sale lines are entered with positive quantities while no
\* recompute runs; the sessions recompute sales statement by statement, no
\* two of them the same sale at a time.
NextConc ==
    \/ NoSessionRuns /\ \E i \in 1..MaxInvoices, q \in BatchQtys : add_item(i, 1, q, PriceList[i])
    \/ NoSessionRuns /\ \E s \in 1..MaxSales, q \in 1..MaxQty : add_sale_item(s, 1, q, 1, 0)
    \/ \E t \in Sessions, s \in 1..MaxSales :
            (\A u \in Sessions : sess[u].sale # s) /\ recalc_start(t, s)
    \/ \E t \in Sessions : recalc_used(t)
    \/ \E t \in Sessions : recalc_insert(t)
    \/ \E t \in Sessions : recalc_commit(t)

SpecConc == Init /\ [][NextConc]_vars

\* --------------------------------------------- vocabulary of the properties
\* These definitions read the tables directly; they share nothing with the
\* operators that model recalc_fifo_for_sale.

\* the step into this state ended with recalc_fifo_for_sale(S) completing
Recomputed(S) == last.sale = S

RECURSIVE Total(_, _)
\* the sum of f[x] over the finite set S
Total(f, S) ==
    IF S = {} THEN 0
    ELSE LET x == CHOOSE y \in S : TRUE IN f[x] + Total(f, S \ {x})

Positive(n) == IF n > 0 THEN n ELSE 0
Smaller(a, b) == IF a < b THEN a ELSE b

\* the quantity the rows of `rows` draw from batch b
Drawn(rows, b) ==
    LET on == {r \in rows : r.batch_id = b}
    IN  Total([r \in on |-> r.qty], on)

\* a batch's remaining capacity: received quantity minus all its allocations
Capacity(b) == invoice_items[b].qty - Drawn(sale_fifo, b)

ReceiptDate(b) == invoices[invoice_items[b].invoice_id]

\* the total order of the batches: receipt date, then batch id
Earlier(a, b) ==
    \/ ReceiptDate(a) < ReceiptDate(b)
    \/ ReceiptDate(a) = ReceiptDate(b) /\ a < b

\* the batches sale line L may draw from
Eligible(L) ==
    {b \in DOMAIN invoice_items :
        /\ invoice_items[b].product_id = sale_items[L].product_id
        /\ ReceiptDate(b) <= sales[sale_items[L].sale_id]}

LinesOf(S) == {l \in DOMAIN sale_items : sale_items[l].sale_id = S}

RowsOf(L) == {r \in sale_fifo : r.sale_item_id = L}

Allocated(L) == Total([r \in RowsOf(L) |-> r.qty], RowsOf(L))

\* an allocation row without its row id
Bare(r) == [sale_item_id |-> r.sale_item_id, batch_id |-> r.batch_id, qty |-> r.qty,
            cost_price |-> r.cost_price]

\* Right after recalc_fifo_for_sale(S), the capacity batch b had when line L
\* of S was processed: the rows of L and of the lines of S after L were not
\* written yet.
CapacityAt(L, b) ==
    LET later == {l \in LinesOf(sale_items[L].sale_id) : l >= L}
        before == {r \in sale_fifo : r.sale_item_id \notin later}
    IN  invoice_items[b].qty - Drawn(before, b)

\* what the batches before b in the total order could give line L
GivenBefore(L, b) ==
    LET E == {a \in Eligible(L) : Earlier(a, b)}
    IN  Total([a \in E |-> Positive(CapacityAt(L, a))], E)

\* ------------------------------------------------------------------ C1
\* C1: after any recalc_fifo_for_sale completes, for every batch the sum of
\* the quantities of the allocation rows referencing it is at most the
\* batch's received quantity.
CapacityInvariant == \A b \in DOMAIN invoice_items : Drawn(sale_fifo, b) <= invoice_items[b].qty

C1_CapacityAfterRecalc == \A S \in 1..MaxSales : Recomputed(S) => CapacityInvariant

\* ------------------------------------------------------------------ C2
\* C2: right after recalc_fifo_for_sale(S), for every line L of S and any two
\* batches A before B (receipt date, then id) both eligible for L: if L has a
\* row drawing from B, then A has no remaining capacity.
FifoOrderLaw(S) ==
    \A L \in LinesOf(S) : \A A \in Eligible(L), B \in Eligible(L) :
        (Earlier(A, B) /\ \E r \in RowsOf(L) : r.batch_id = B) => Capacity(A) <= 0

C2_FifoOrder == \A S \in 1..MaxSales : Recomputed(S) => FifoOrderLaw(S)

\* a line that draws from both of two eligible batches, the earlier one taken whole
C2_Witness ==
    \E L \in DOMAIN sale_items : \E A \in Eligible(L), B \in Eligible(L) :
        /\ Recomputed(sale_items[L].sale_id)
        /\ Earlier(A, B)
        /\ B < A
        /\ \E r \in RowsOf(L) : r.batch_id = B /\ r.qty > 0
        /\ \E r \in RowsOf(L) : r.batch_id = A /\ r.qty > 0
        /\ Capacity(A) = 0

\* ------------------------------------------------------------------ C3
\* C3: right after recalc_fifo_for_sale(S), for every line L of S the sum of
\* L's rows is at most L's requested quantity and equals the smaller of the
\* requested quantity and the capacity the eligible batches had left when L
\* was processed; so the shortfall is >= 0.
CoverageLaw(S) ==
    \A L \in LinesOf(S) :
        LET E == Eligible(L)
            supply == Total([b \in E |-> Positive(CapacityAt(L, b))], E)
        IN  /\ Allocated(L) <= sale_items[L].qty
            /\ Allocated(L) = Smaller(sale_items[L].qty, supply)
            /\ sale_items[L].qty - Allocated(L) >= 0
            /\ sale_items[L].qty - Allocated(L) > 0 => \A b \in E : Capacity(b) <= 0

C3_Coverage == \A S \in 1..MaxSales : Recomputed(S) => CoverageLaw(S)

\* ------------------------------------------------------------------ C4
\* the rows of the reference greedy walk for line L: over the eligible
\* batches in (date, id) order, each batch with capacity r > 0 met while the
\* need is > 0 gives one row (L, batch, the smaller of r and the need, the
\* batch's unit price)
GreedyRows(L) ==
    {[sale_item_id |-> L, batch_id |-> b,
      qty |-> Smaller(CapacityAt(L, b), sale_items[L].qty - GivenBefore(L, b)),
      cost_price |-> invoice_items[b].price] :
        b \in {e \in Eligible(L) :
                /\ CapacityAt(L, e) > 0
                /\ sale_items[L].qty - GivenBefore(L, e) > 0}}

GreedyLaw(S) ==
    \A L \in LinesOf(S) :
        sale_items[L].qty > 0 =>
            /\ {Bare(r) : r \in RowsOf(L)} = GreedyRows(L)
            /\ Cardinality(RowsOf(L)) = Cardinality(GreedyRows(L))

\* a ledger with the given batches and one sale holding one line, no row yet
Ledger(dates, batches, sale_date, line) ==
    [invoices |-> dates, invoice_items |-> batches, sales |-> <<sale_date>>,
     sale_items |-> <<line>>, sale_fifo |-> {}, durable_fifo |-> {},
     seq |-> [invoices |-> Len(dates), invoice_items |-> Len(batches), sales |-> 1,
              sale_items |-> 1, sale_fifo |-> 0]]

\* Scenario A: one batch of 10 units at cost 5, a line requesting 3
ScenarioA ==
    LET db == Ledger(<<1>>, <<[invoice_id |-> 1, product_id |-> 1, qty |-> 10, price |-> 5]>>,
                     2, [sale_id |-> 1, product_id |-> 1, qty |-> 3])
        out == recalc_fifo_for_sale(db, 1, 0)
    IN  /\ out.ok
        /\ {Bare(r) : r \in out.db.sale_fifo} =
               {[sale_item_id |-> 1, batch_id |-> 1, qty |-> 3, cost_price |-> 5]}
        /\ Cardinality(out.db.sale_fifo) = 1
        /\ out.db.invoice_items[1].qty - Drawn(out.db.sale_fifo, 1) = 7

\* Scenario B: 5 units at cost 4 received on day 1, 5 units at cost 6 received
\* on day 2, a line requesting 8 after both receipts
ScenarioB ==
    LET db == Ledger(<<1, 2>>, <<[invoice_id |-> 1, product_id |-> 1, qty |-> 5, price |-> 4],
                                 [invoice_id |-> 2, product_id |-> 1, qty |-> 5, price |-> 6]>>,
                     3, [sale_id |-> 1, product_id |-> 1, qty |-> 8])
        out == recalc_fifo_for_sale(db, 1, 0)
    IN  /\ out.ok
        /\ {Bare(r) : r \in out.db.sale_fifo} =
               {[sale_item_id |-> 1, batch_id |-> 1, qty |-> 5, cost_price |-> 4],
                [sale_item_id |-> 1, batch_id |-> 2, qty |-> 3, cost_price |-> 6]}
        /\ Cardinality(out.db.sale_fifo) = 2

\* C4: right after recalc_fifo_for_sale(S), the rows of every line of S that
\* requests q > 0 are exactly the rows of the reference greedy walk, one row
\* per batch; Scenario A gives one row of 3 at cost 5 and leaves 7, Scenario B
\* gives 5 at cost 4 and 3 at cost 6.
C4_GreedyResult ==
    /\ \A S \in 1..MaxSales : Recomputed(S) => GreedyLaw(S)
    /\ ScenarioA
    /\ ScenarioB

\* a line whose request did not fit in the first batch: that batch taken
\* whole, the rest from the next one, each row at its own batch's cost
C4_Witness ==
    \E L \in DOMAIN sale_items : \E r1 \in RowsOf(L), r2 \in RowsOf(L) :
        /\ Recomputed(sale_items[L].sale_id)
        /\ sale_items[L].qty = 2
        /\ r1.batch_id # r2.batch_id
        /\ r1.qty = invoice_items[r1.batch_id].qty
        /\ r1.qty + r2.qty = 2
        /\ r1.cost_price # r2.cost_price

\* ------------------------------------------------------------------ C10
\* the rows a recompute of L's sale on the current data gives line L
FreshRows(L) ==
    LET out == recalc_fifo_for_sale(DB, sale_items[L].sale_id, 0)
    IN  {Bare(r) : r \in {x \in out.db.sale_fifo : x.sale_item_id = L}}

UpToDate(L) == {Bare(r) : r \in RowsOf(L)} = FreshRows(L)

\* the sale lines of batch b's product sold on or after b's receipt date
LinesFundedBy(b) ==
    {L \in DOMAIN sale_items :
        /\ sale_items[L].product_id = invoice_items[b].product_id
        /\ sales[sale_items[L].sale_id] >= ReceiptDate(b)}

\* C10: after a step that inserted batch b or changed its quantity, price or
\* receipt date, the rows of every sale line of b's product sold on or after
\* b's receipt date equal what a fresh recompute on the current data gives.
C10_BatchChangeRecomputes ==
    [][\A b \in DOMAIN invoice_items' :
          (\/ b \notin DOMAIN invoice_items
           \/ b \in DOMAIN invoice_items /\ invoice_items'[b] # invoice_items[b]
           \/ b \in DOMAIN invoice_items /\ ReceiptDate(b)' # ReceiptDate(b))
          => \A L \in LinesFundedBy(b)' : UpToDate(L)']_vars

\* ------------------------------------------------------------------ C8
\* C8: in every reachable state every allocation row references an existing
\* sale line (the rows of a deleted line are deleted with it).
C8_NoOrphanRows == \A r \in sale_fifo : r.sale_item_id \in DOMAIN sale_items

\* ------------------------------------------------------------------ C9
\* C9: after a step that deleted a batch b which funded allocation rows, no
\* allocation row references b and the capacity invariant holds against the
\* remaining batches.
C9_BatchDeleteRecomputes ==
    [][\A b \in DOMAIN invoice_items :
          (b \notin DOMAIN invoice_items' /\ \E r \in sale_fifo : r.batch_id = b)
          => /\ \A r \in sale_fifo' : r.batch_id # b
             /\ CapacityInvariant']_vars

\* ------------------------------------------------------------------ C7
\* the sales the bulk recompute covers
Window == {S \in DOMAIN sales : sales[S] >= FIFO_START_DATE}

WindowLines == {L \in DOMAIN sale_items : sale_items[L].sale_id \in Window}

\* every in-window allocation discarded, then the in-window sales allocated
\* one at a time in the order `order`
RECURSIVE Rebuild(_, _)
Rebuild(db, order) ==
    IF order = <<>> THEN db
    ELSE Rebuild(recalc_fifo_for_sale(db, Head(order), 0).db, Tail(order))

ChronologicalRebuilds ==
    LET blank == [DB EXCEPT !.sale_fifo = {r \in @ : r.sale_item_id \notin WindowLines}]
        n == Cardinality(Window)
        orders == {o \in [1..n -> Window] :
                      /\ \A i, j \in 1..n : i < j => o[i] # o[j]
                      /\ \A i, j \in 1..n : i < j => sales[o[i]] <= sales[o[j]]}
    IN  {{Bare(r) : r \in {x \in Rebuild(blank, o).sale_fifo : x.sale_item_id \in WindowLines}} :
            o \in orders}

\* no in-window line is short of a batch a later-dated in-window sale draws from
NoShortfallBehindLaterSale ==
    \A L \in WindowLines :
        sale_items[L].qty - Allocated(L) > 0 =>
            ~ \E r \in sale_fifo :
                /\ r.batch_id \in Eligible(L)
                /\ r.qty > 0
                /\ r.sale_item_id \in WindowLines
                /\ sales[sale_items[r.sale_item_id].sale_id] > sales[sale_items[L].sale_id]

\* C7: after a mass FIFO recalculation without failures, the rows of the
\* in-window sales are those of a chronological rebuild, and no in-window
\* line has a shortfall on a batch held by a later-dated in-window sale.
C7_BulkIsChronologicalRebuild ==
    last.bulk =>
        /\ {Bare(r) : r \in {x \in sale_fifo : x.sale_item_id \in WindowLines}}
               \in ChronologicalRebuilds
        /\ NoShortfallBehindLaterSale

\* ------------------------------------------------------------------ C5
\* the persisted allocation set of sale S
Persisted(S) == {Bare(r) : r \in {x \in durable_fifo : x.sale_item_id \in LinesOf(S)}}

\* the complete set a recompute of S on the current data gives
Complete(S) ==
    LET out == recalc_fifo_for_sale(DB, S, 0)
    IN  {Bare(r) : r \in {x \in out.db.sale_fifo : x.sale_item_id \in LinesOf(S)}}

\* C5: across every step, the persisted allocation set of every sale is
\* either the set from before the step or the complete newly computed set.
C5_ReplaceOnlyAtomicity ==
    [][\A S \in DOMAIN sales : Persisted(S)' = Persisted(S) \/ Persisted(S)' = Complete(S)']_vars

\* ------------------------------------------------------------------ C6
\* C6: when the recomputes the sessions ran have all finished, no batch has
\* allocation rows summing to more than its quantity.
C6_SerializedRecomputes ==
    (\A t \in Sessions : sess[t].pc = "idle") => CapacityInvariant

\* ------------------------------------------------------------------ C11
\* the step changed the date of sale S, its set of lines or one of its lines
SaleMutated(S) ==
    /\ S \in DOMAIN sales
    /\ \/ sales'[S] # sales[S]
       \/ LinesOf(S)' # LinesOf(S)
       \/ \E L \in LinesOf(S) \cap LinesOf(S)' : sale_items'[L] # sale_items[L]

DatedBeforeSale(r) ==
    /\ r.sale_item_id \in DOMAIN sale_items
    /\ r.batch_id \in DOMAIN invoice_items
    /\ ReceiptDate(r.batch_id) <= sales[sale_items[r.sale_item_id].sale_id]

\* C12: right after every completed recompute, every allocation row, of any
\* line of any sale, references a batch received on or before the date of the
\* sale that owns the line.
C12_DateEligibility ==
    (\E S \in DOMAIN sales : Recomputed(S)) => \A r \in sale_fifo : DatedBeforeSale(r)

\* ------------------------------------------------------------------ C13
\* the allocation set of the lines of sale S in database db: batch, quantity
\* and cost per line
SaleRows(db, S) ==
    {Bare(r) : r \in {x \in db.sale_fifo :
                        /\ x.sale_item_id \in DOMAIN db.sale_items
                        /\ db.sale_items[x.sale_item_id].sale_id = S}}

\* C13: in every reachable state and for every sale S, calling
\* recalc_fifo_for_sale(S) twice in a row leaves S's lines the same allocation
\* set after the second call as after the first.
C13_RecalcIdempotent ==
    \A S \in DOMAIN sales :
        LET first == recalc_fifo_for_sale(DB, S, 0)
            second == recalc_fifo_for_sale(first.db, S, 0)
        IN  /\ SaleRows(second.db, S) = SaleRows(first.db, S)
            /\ Cardinality({r \in second.db.sale_fifo : r \notin first.db.sale_fifo})
                   = Cardinality({r \in first.db.sale_fifo : r \notin second.db.sale_fifo})

\* right after a recompute of S, a line of S holds rows on a batch that a
\* line of another sale draws from too
C13_Witness ==
    \E L \in DOMAIN sale_items : \E r \in RowsOf(L) : \E o \in sale_fifo :
        /\ Recomputed(sale_items[L].sale_id)
        /\ r.qty > 0
        /\ o.batch_id = r.batch_id
        /\ o.sale_item_id \in DOMAIN sale_items
        /\ sale_items[o.sale_item_id].sale_id # sale_items[L].sale_id


\* C14: running the bulk recompute a second time, with no other mutation in
\* between, leaves the whole allocation table exactly as the first run left
\* it: the same rows, row identity included.
C14_BulkIdempotent ==
    \A rows \in MassOrders(DB) :
        LET first  == mass_recalc_db(DB, rows, NoFails)
            second == mass_recalc_db(first.db, rows, NoFails)
        IN  (Len(rows) > 0 /\ second.db.seq.sale_fifo <= MaxFifoId)
                => second.db.sale_fifo = first.db.sale_fifo


\* C15: the bulk recompute processes the in-window sales in ascending order of
\* sale date, and sales of the same date in ascending order of sale id: the
\* order of processing is the one total order by (date, id).
ProcessedBefore(a, b) == sales[a] < sales[b] \/ (sales[a] = sales[b] /\ a < b)

C15_BulkOrder ==
    \A i, j \in 1..Len(last.attempts) :
        i < j => ProcessedBefore(last.attempts[i], last.attempts[j])


\* C16: in a bulk recompute, a sale whose recompute fails is recorded with its
\* id and the message of the failure, every in-window sale is attempted
\* exactly once whether or not another one failed, the run ends with a report,
\* and the report lists exactly the sales that failed: none dropped, none
\* listed that succeeded, none listed twice.
Reported == {last.errors[i].sid : i \in 1..Len(last.errors)}

C16_BulkFailureIsolation ==
    last.attempts # <<>> =>
        /\ {last.attempts[i] : i \in 1..Len(last.attempts)} = Window
        /\ Len(last.attempts) = Cardinality(Window)
        /\ Reported = last.raised
        /\ Len(last.errors) = Cardinality(last.raised)
        /\ \A i \in 1..Len(last.errors) : last.errors[i].message \in 1..MaxFailAt
        /\ last.told = IF last.raised = {} THEN "ok" ELSE "failed"

\* a bulk run in which the first sale failed and the second one, attempted
\* after it, was recomputed and is not in the report
C16_Witness ==
    /\ Len(last.attempts) = 2
    /\ last.raised = {last.attempts[1]}
    /\ Reported = {last.attempts[1]}
    /\ Recomputed(last.attempts[2])
    /\ \E L \in LinesOf(last.attempts[2]) : Allocated(L) > 0


\* C17: whenever a recompute leaves a line of the recomputed sale with demand
\* that no eligible batch could cover, the recompute hands that shortfall (the
\* line and the uncovered quantity) back to its caller.
Shortfall(L) == sale_items[L].qty - Allocated(L)

C17_ShortfallReturned ==
    \A S \in DOMAIN sales :
        Recomputed(S) =>
            \A L \in LinesOf(S) : Shortfall(L) > 0 => <<L, Shortfall(L)>> \in last.returned


\* C18: when the recompute that a sale mutation triggers fails, the caller of
\* the mutation is told of the failure: a step that changes a sale or its
\* lines and whose recompute raised never ends reported as a success.
C18_RecomputeOutcomeReported ==
    [][\A S \in DOMAIN sales : (SaleMutated(S) /\ S \in last'.raised) => last'.told = "failed"]_vars


\* C19: a sale with a line of negative requested quantity is never recomputed
\* to completion (the recompute fails as invalid input), and such a line holds
\* no allocation row.
C19_NegativeDemandRejected ==
    \A L \in DOMAIN sale_items :
        sale_items[L].qty < 0 =>
            /\ ~Recomputed(sale_items[L].sale_id)
            /\ RowsOf(L) = {}


\* C20: add_sale_item and update_sale_item reject invalid input before they
\* touch storage: whenever a step stores a new sale line or changes a stored
\* one, the line has a positive quantity and names an existing sale and an
\* existing product.
ValidLine(l) == l.qty > 0 /\ l.sale_id \in DOMAIN sales /\ l.product_id \in Products

Written(L) == L \notin DOMAIN sale_items \/ sale_items'[L] # sale_items[L]

C20_InvalidInputRejected ==
    [][\A L \in DOMAIN sale_items' : Written(L) => ValidLine(sale_items'[L])]_vars


\* C21: a step that deletes a sale S removes S's lines and every allocation
\* row of those lines, and leaves every other allocation row, every other sale
\* and every other sale line as it was.
Deleted(S) == S \in DOMAIN sales /\ S \notin DOMAIN sales'

PriceOf(b) == invoice_items[b].price

PriceEdited(b) == b \in DOMAIN invoice_items /\ b \in DOMAIN invoice_items' /\ PriceOf(b)' # PriceOf(b)

C22_CostSnapshot ==
    /\ [][/\ \A r \in sale_fifo' :
                \/ r \in sale_fifo
                \/ r.batch_id \in DOMAIN invoice_items' /\ r.cost_price = PriceOf(r.batch_id)'
          /\ (\E b \in 1..MaxBatches : PriceEdited(b)) => sale_fifo' = sale_fifo]_vars
    /\ [](\A S \in DOMAIN sales :
            Recomputed(S) =>
                \A L \in LinesOf(S) : \A r \in RowsOf(L) : r.cost_price = PriceOf(r.batch_id))

\* a sale was recomputed after the price of a batch was edited: its row carries
\* the new price while a row of the other sale on the same batch keeps the old
C22_Witness ==
    \E r1, r2 \in sale_fifo :
        /\ r1.batch_id = r2.batch_id
        /\ r1.batch_id \in DOMAIN invoice_items
        /\ Recomputed(sale_items[r1.sale_item_id].sale_id)
        /\ r1.cost_price = PriceOf(r1.batch_id)
        /\ r2.cost_price # PriceOf(r2.batch_id)


\* C23: safe_add_sale_item(sale, product, qty) raises and leaves sale_items
\* and sale_fifo unchanged when qty exceeds the quantity of the product
\* received on or before the sale's date minus the quantity of the product on
\* the lines of all other sales dated on or before it; otherwise the line is
\* inserted and the sale is recomputed.
ReceivedUpTo(P, D) ==
    {b \in DOMAIN invoice_items : invoice_items[b].product_id = P /\ ReceiptDate(b) <= D}

SoldUpTo(P, D) ==
    {L \in DOMAIN sale_items :
        /\ sale_items[L].product_id = P
        /\ sale_items[L].sale_id \in DOMAIN sales
        /\ sales[sale_items[L].sale_id] <= D}

QtyOf(table, ids) == Total([x \in ids |-> table[x].qty], ids)

AvailableExcluding(P, D, S) ==
    QtyOf(invoice_items, ReceivedUpTo(P, D))
        - QtyOf(sale_items, {L \in SoldUpTo(P, D) : sale_items[L].sale_id # S})

GuardedCall == last'.guarded # <<>>

AvailableAsOf(P, D) == QtyOf(invoice_items, ReceivedUpTo(P, D)) - QtyOf(sale_items, SoldUpTo(P, D))

C29_GuardedStockNonNegative ==
    \A P \in Products : \A S \in DOMAIN sales : AvailableAsOf(P, sales[S]) >= 0


\* C24: for every sale, the quantity the sale draws from each batch and the
\* sale's uncovered quantity of each product after a recompute are the same
\* whichever order the sale's lines are processed in.
LineOrders(S) ==
    LET n == Cardinality(LinesOf(S))
    IN  {o \in [1..n -> LinesOf(S)] : \A i, j \in 1..n : i # j => o[i] # o[j]}

\* the rows of sale S after its recompute takes the lines in the order `order`
RowsInOrder(S, order) ==
    LET kept == {r \in sale_fifo : r.sale_item_id \notin LinesOf(S)}
        st0 == [fifo |-> kept, seq |-> seq.sale_fifo, inserts |-> 0, failAt |-> 0, ok |-> TRUE]
    IN  AllocItems(st0, [DB EXCEPT !.sale_fifo = kept], sales[S], order).fifo \ kept

Uncovered(S, rows, P) ==
    LET lines == {L \in LinesOf(S) : sale_items[L].product_id = P}
        mine == {r \in rows : r.sale_item_id \in lines}
    IN  QtyOf(sale_items, lines) - Total([r \in mine |-> r.qty], mine)

C24_LineOrderIndependence ==
    \A S \in DOMAIN sales : \A o1, o2 \in LineOrders(S) :
        /\ \A b \in DOMAIN invoice_items :
              Drawn(RowsInOrder(S, o1), b) = Drawn(RowsInOrder(S, o2), b)
        /\ \A P \in Products :
              Uncovered(S, RowsInOrder(S, o1), P) = Uncovered(S, RowsInOrder(S, o2), P)


\* C25: the unit price and the marketplace splits of a sale line do not
\* influence allocation: from any state, inserting a line of the same sale,
\* product and quantity through add_sale_item at any price or through
\* add_sale_item_mp at any price, gross total, fee, delivery charge and net
\* total leaves the same allocation rows, and a recompute of a sale writes the
\* same rows whatever the monetary columns of the stored lines hold.
Unpriced(db) ==
    [db EXCEPT !.sale_items = [L \in DOMAIN @ |->
        [sale_id |-> @[L].sale_id, product_id |-> @[L].product_id, qty |-> @[L].qty]]]

C25_MoneyDoesNotInfluenceAllocation ==
    /\ \A S \in DOMAIN sales : \A P \in Products : \A q \in 1..MaxQty :
          LET plain == add_sale_item_db(DB, S, P, q, 1, 0).db.sale_fifo
          IN  /\ \A pr \in Prices : add_sale_item_db(DB, S, P, q, pr, 0).db.sale_fifo = plain
              /\ \A pr \in Prices : \A g, f, d, n \in Charges :
                    add_sale_item_mp_db(DB, S, P, q, pr, g, f, d, n, 0).db.sale_fifo = plain
    /\ \A S \in DOMAIN sales :
          recalc_fifo_for_sale(DB, S, 0).db.sale_fifo
              = recalc_fifo_for_sale(Unpriced(DB), S, 0).db.sale_fifo

\* a hand-entered line and a marketplace line with a fee, of the same product
\* and quantity at different prices, both hold allocations
C25_Witness ==
    \E L1, L2 \in DOMAIN sale_items :
        /\ "mp_fee" \in DOMAIN sale_items[L1]
        /\ sale_items[L1].mp_fee > 0
        /\ "mp_fee" \notin DOMAIN sale_items[L2]
        /\ sale_items[L1].price # sale_items[L2].price
        /\ sale_items[L1].qty = sale_items[L2].qty
        /\ Allocated(L1) = sale_items[L1].qty
        /\ Allocated(L2) = sale_items[L2].qty


\* C26: a bulk recompute recomputes exactly the sales dated on or after
\* FIFO_START_DATE; the allocation rows of the sales dated before it are left
\* as they were, and they count against the capacity of their batches when the
\* in-window sales are allocated, so that no batch is drawn beyond its quantity.
BeforeCutoff(r) ==
    /\ r.sale_item_id \in DOMAIN sale_items
    /\ sales[sale_items[r.sale_item_id].sale_id] < FIFO_START_DATE

BulkRan == last.attempts # <<>>

C26_BulkCutoffFrame ==
    /\ [][BulkRan' => {r \in sale_fifo' : BeforeCutoff(r)'} = {r \in sale_fifo : BeforeCutoff(r)}]_vars
    /\ [](BulkRan =>
            /\ {last.attempts[i] : i \in 1..Len(last.attempts)} = Window
            /\ CapacityInvariant)

\* after a bulk run a sale dated before the cutoff still holds a row on a
\* batch, and an in-window sale that the run recomputed is short of that batch
C26_Witness ==
    /\ BulkRan
    /\ \E r \in sale_fifo :
          /\ BeforeCutoff(r)
          /\ \E L \in WindowLines :
                /\ r.batch_id \in Eligible(L)
                /\ Allocated(L) < sale_items[L].qty


\* C27: recalc_fifo_for_sale(S), whether it completes or raises, deletes and
\* inserts only allocation rows of the lines of S: the rows of every other
\* sale (and rows left without a line) and all batches, invoices, sales and
\* sale lines, those of S included, are as before the call.
NotOf(S, rows) == {r \in rows : r.sale_item_id \notin LinesOf(S)}

C27_RecomputeFrame ==
    \A S \in DOMAIN sales : \A failAt \in 0..MaxFailAt :
        LET out == recalc_fifo_for_sale(DB, S, failAt).db
        IN  /\ NotOf(S, out.sale_fifo) = NotOf(S, sale_fifo)
            /\ out.invoices = invoices
            /\ out.invoice_items = invoice_items
            /\ out.sales = sales
            /\ out.sale_items = sale_items

\* a sale was recomputed and holds a row, written after a row that a deleted
\* line left behind
C27_Witness ==
    \E S \in DOMAIN sales :
        /\ Recomputed(S)
        /\ \E L \in LinesOf(S) : \E r \in RowsOf(L) : \E o \in sale_fifo :
              /\ o.sale_item_id \notin DOMAIN sale_items
              /\ o.id < r.id
              /\ o.batch_id = r.batch_id


\* C28: in every reachable state every allocation row has a quantity above 0;
\* a line that requests quantity 0 gets no allocation row.
C28_PositiveAllocations == \A r \in sale_fifo : r.qty > 0


\* C30: in every reachable state, the sale line and the batch that an
\* allocation row links are of the same product.
SameProduct(r) ==
    (r.sale_item_id \in DOMAIN sale_items /\ r.batch_id \in DOMAIN invoice_items)
        => sale_items[r.sale_item_id].product_id = invoice_items[r.batch_id].product_id

C30_ProductConsistency == \A r \in sale_fifo : SameProduct(r)

\* one sale holds allocated lines of two products while batches of both
\* products are eligible for each of them
C30_Witness ==
    \E L1, L2 \in DOMAIN sale_items :
        /\ sale_items[L1].sale_id = sale_items[L2].sale_id
        /\ sale_items[L1].product_id # sale_items[L2].product_id
        /\ Allocated(L1) > 0
        /\ Allocated(L2) > 0
        /\ \A r \in RowsOf(L1) \cup RowsOf(L2) : r.batch_id \in DOMAIN invoice_items

====
